---- MODULE Spec2Model ----
(***************************************************************************)
(* Dispatch core of the indicator framework: the static Configuration      *)
(* capability (trait IndicatorConfig, core/indicator/config.rs) and the    *)
(* type-erased adapters (traits IndicatorConfigDyn / IndicatorInstanceDyn  *)
(* with their blanket impls, core/indicator/dd.rs).                        *)
(*                                                                         *)
(* The traits are generic over the concrete indicator.  The concrete       *)
(* indicators and the IndicatorInstance trait live outside the two source  *)
(* files, so the model instantiates the traits with two reference          *)
(* indicators written from the specification's contract (sections 4.1, 6,  *)
(* 7): "Sum" keeps the trait's default name(), "Max" provides its own.     *)
(***************************************************************************)
EXTENDS Integers, Sequences, FiniteSets, TLC

VARIABLES
    cfg,        \* the Configuration the host holds (boxed), or Moved once consumed
    setPeriod,  \* <<v>> for the value v of the last successful set on cfg, NoSet when none
    insts,      \* the Instances the host holds, one per slot, or NoInst
    last        \* the most recent call: operation, arguments, receiver before the call, outcome

vars == <<cfg, setPeriod, insts, last>>

(* ------------------------------ bounds --------------------------------- *)
\* largest period the host constructs or sets
MaxPeriod == 2
\* candles are identified by their close price 0..MaxCandle
MaxCandle == 1
\* longest candle sequence handed to one over call
MaxLen == 2
\* most candles fed, in total, to the Instances the host holds
MaxFed == 2

Candles == 0..MaxCandle
\* the host holds two boxed Instances side by side
Slots == {"a", "b"}
Kinds == {"Sum", "Max"}

RECURSIVE SeqsUpTo(_, _)
SeqsUpTo(S, n) ==
    IF n = 0 THEN {<<>>}
    ELSE LET shorter == SeqsUpTo(S, n - 1)
         IN shorter \cup {Append(s, x) : s \in {t \in shorter : Len(t) = n - 1}, x \in S}

CandleSeqs == SeqsUpTo(Candles, MaxLen)

(* ------------------------- Result<T, Error> ---------------------------- *)
Ok(v) == [ok |-> TRUE, val |-> v]
Err(e) == [ok |-> FALSE, err |-> e]
SameOutcome(a, b) ==
    /\ a.ok = b.ok
    /\ IF a.ok THEN a.val = b.val ELSE a.err = b.err

Moved == [kind |-> "Moved", period |-> 0]
NoSet == <<>>
NoInst == [cfg |-> Moved, window |-> <<>>]

(* ---------------- string-encoded parameter values ---------------------- *)
\* A value handed to set is text; it is modelled as its sequence of characters.
DigitChars == <<"0", "1", "2", "3", "4", "5", "6", "7", "8", "9">>
IsDigit(ch) == \E d \in 1..Len(DigitChars) : DigitChars[d] = ch
DigitVal(ch) == (CHOOSE d \in 1..Len(DigitChars) : DigitChars[d] = ch) - 1

\* largest value of the period field's type (u8)
PeriodTypeMax == 255

RECURSIVE Decimal(_)
Decimal(s) ==
    IF s = <<>> THEN 0
    ELSE 10 * Decimal(SubSeq(s, 1, Len(s) - 1)) + DigitVal(s[Len(s)])

\* str::parse::<u8>: empty text, a non-digit or a value above 255 is an error
ParseU8(s) ==
    IF s = <<>> \/ (\E i \in 1..Len(s) : ~IsDigit(s[i])) THEN Err("ParseError")
    ELSE IF Decimal(s) > PeriodTypeMax THEN Err("ParseError")
    ELSE Ok(Decimal(s))

ParamNames == {"period", "bogus"}
ParamValues ==
    {<<DigitChars[d + 1]>> : d \in 0..MaxPeriod}
        \cup {<<>>, <<"x">>, <<"0", "1">>, <<"2", "5", "6">>}

(* ------------- the reference indicators (concrete Configuration) ------- *)
Configs == [kind : Kinds, period : 0..MaxPeriod]
DefaultConfig(kind) == [kind |-> kind, period |-> 1]

\* const NAME of the concrete indicator
ConstNAME(c) == c.kind

\* "Max" provides its own name(); "Sum" keeps the trait's provided method
OverridesName(c) == c.kind = "Max"
OwnName(c) == "Highest"

\* IndicatorConfig::validate
ConfigValidate(c) == c.period >= 1

\* IndicatorConfig::size: (count of raw values, count of signals)
ConfigSize(c) == IF c.kind = "Sum" THEN <<1, 0>> ELSE <<1, 1>>

\* IndicatorConfig::set: parse and check before mutating; atomic on error
ConfigSet(c, name, value) ==
    IF name # "period" THEN [out |-> Err("InvalidParameter"), cfg |-> c]
    ELSE LET p == ParseU8(value)
         IN IF ~p.ok \/ p.val < 1
            THEN [out |-> Err("InvalidParameter"), cfg |-> c]
            ELSE [out |-> Ok(<<>>), cfg |-> [c EXCEPT !.period = p.val]]

\* the seed must satisfy the period requirement, or init fails with IncompatibleSeed
SeedCompatible(c, seed) == seed + 1 >= c.period

\* IndicatorConfig::init: consumes the Configuration, builds the streaming state
ConfigInit(c, seed) ==
    IF ~ConfigValidate(c) THEN Err("InvalidParameter")
    ELSE IF ~SeedCompatible(c, seed) THEN Err("IncompatibleSeed")
    ELSE Ok([cfg |-> c, window |-> [i \in 1..c.period |-> seed]])

(* ---------------- the Instance capability (consumed) ------------------- *)
RECURSIVE SumSeq(_)
SumSeq(w) == IF w = <<>> THEN 0 ELSE w[1] + SumSeq(Tail(w))
RECURSIVE MaxSeq(_)
MaxSeq(w) ==
    IF w = <<>> THEN 0
    ELSE LET m == MaxSeq(Tail(w)) IN IF w[1] >= m THEN w[1] ELSE m

\* the IndicatorResult an Instance emits for its current window
Emit(inst, candle) ==
    IF inst.cfg.kind = "Sum"
    THEN [values |-> <<SumSeq(inst.window)>>, signals |-> <<>>]
    ELSE [values |-> <<MaxSeq(inst.window)>>,
          signals |-> <<IF candle = MaxSeq(inst.window) THEN 1 ELSE 0>>]

\* IndicatorInstance::next: advance the state by one candle, emit one result
InstNext(inst, candle) ==
    LET moved == [inst EXCEPT !.window = Append(Tail(inst.window), candle)]
    IN [inst |-> moved, result |-> Emit(moved, candle)]

\* IndicatorInstance::over: next on every candle, in order
RECURSIVE InstOver(_, _)
InstOver(inst, inputs) ==
    IF inputs = <<>> THEN [inst |-> inst, results |-> <<>>]
    ELSE LET r == InstNext(inst, inputs[1])
             rest == InstOver(r.inst, Tail(inputs))
         IN [inst |-> rest.inst, results |-> <<r.result>> \o rest.results]

(* ------------- trait IndicatorConfig: the provided methods ------------- *)
\* IndicatorConfig::name: the provided method returns Self::NAME unless the
\* concrete Configuration provides its own
ConfigName(c) == IF OverridesName(c) THEN OwnName(c) ELSE ConstNAME(c)

\* over without the empty-input return: indexing inputs[0] fails
ConfigOverNoEmptyCheck(c, inputs) ==
    IF inputs = <<>>
    THEN [out |-> Err("IndexOutOfBounds"), inits |-> <<>>, fed |-> <<>>]
    ELSE LET state == ConfigInit(c, inputs[1])
         IN IF ~state.ok
            THEN [out |-> state, inits |-> <<inputs[1]>>, fed |-> <<>>]
            ELSE [out |-> Ok(InstOver(state.val, inputs).results),
                  inits |-> <<inputs[1]>>, fed |-> inputs]

\* over that does not feed the seed candle again
ConfigOverSkipSeed(c, inputs) ==
    IF inputs = <<>>
    THEN [out |-> Ok(<<>>), inits |-> <<>>, fed |-> <<>>]
    ELSE LET state == ConfigInit(c, inputs[1])
         IN IF ~state.ok
            THEN [out |-> state, inits |-> <<inputs[1]>>, fed |-> <<>>]
            ELSE [out |-> Ok(InstOver(state.val, Tail(inputs)).results),
                  inits |-> <<inputs[1]>>, fed |-> Tail(inputs)]

\* over that swallows the failure of init and returns no results
ConfigOverSwallow(c, inputs) ==
    IF inputs = <<>>
    THEN [out |-> Ok(<<>>), inits |-> <<>>, fed |-> <<>>]
    ELSE LET state == ConfigInit(c, inputs[1])
         IN IF ~state.ok
            THEN [out |-> Ok(<<>>), inits |-> <<inputs[1]>>, fed |-> <<>>]
            ELSE [out |-> Ok(InstOver(state.val, inputs).results),
                  inits |-> <<inputs[1]>>, fed |-> inputs]

\* IndicatorConfig::over.  out is the value returned; inits lists the seeds
\* init was called with, fed the candles handed to the Instance built.
ConfigOver(c, inputs) ==
    IF inputs = <<>>
    THEN [out |-> Ok(<<>>), inits |-> <<>>, fed |-> <<>>]
    ELSE LET state == ConfigInit(c, inputs[1])
         IN IF ~state.ok
            THEN [out |-> state, inits |-> <<inputs[1]>>, fed |-> <<>>]
            ELSE [out |-> Ok(InstOver(state.val, inputs).results),
                  inits |-> <<inputs[1]>>, fed |-> inputs]

(* ------------- impl IndicatorConfigDyn for C (blanket bridge) ---------- *)
\* self.clone(): the duplicate handed to the consuming static method
Clone(c) == c

\* init that consumes the receiver instead of a duplicate
DynInitConsuming(c, seed) == [out |-> ConfigInit(c, seed), self |-> Moved]

\* init that builds from a fresh default Configuration instead of a duplicate
DynInitDefault(c, seed) ==
    [out |-> ConfigInit(DefaultConfig(c.kind), seed), self |-> c]

\* IndicatorConfigDyn::init.  self is the borrowed receiver after the call.
DynInit(c, seed) ==
    LET instance == ConfigInit(Clone(c), seed)
    IN [out |-> instance, self |-> c]

\* over that evaluates a fresh default Configuration instead of a duplicate
DynOverDefault(c, inputs) ==
    LET r == ConfigOver(DefaultConfig(c.kind), inputs)
    IN [out |-> r.out, inits |-> r.inits, fed |-> r.fed, self |-> c]

\* IndicatorConfigDyn::over
DynOver(c, inputs) ==
    LET r == ConfigOver(Clone(c), inputs)
    IN [out |-> r.out, inits |-> r.inits, fed |-> r.fed, self |-> c]

\* IndicatorConfigDyn::name
DynName(c) == ConstNAME(c)

\* IndicatorConfigDyn::validate
DynValidate(c) == ConfigValidate(c)

\* set applied to a duplicate: reported as done, the receiver keeps its value
DynSetOnClone(c, name, value) ==
    [out |-> ConfigSet(Clone(c), name, value).out, cfg |-> c]

\* IndicatorConfigDyn::set
DynSet(c, name, value) == ConfigSet(c, name, value)

\* IndicatorConfigDyn::size
DynSize(c) == ConfigSize(c)

(* ------------- impl IndicatorInstanceDyn for I (blanket bridge) -------- *)
\* next on a duplicate of the boxed Instance: the held state does not advance
InstDynNextOnClone(inst, candle) ==
    [inst |-> inst, result |-> InstNext(inst, candle).result]

\* IndicatorInstanceDyn::next
InstDynNext(inst, candle) == InstNext(inst, candle)

\* over on a duplicate of the boxed Instance: the held state does not advance
InstDynOverOnClone(inst, inputs) ==
    [inst |-> inst, results |-> InstOver(inst, inputs).results]

\* IndicatorInstanceDyn::over
InstDynOver(inst, inputs) == InstOver(inst, inputs)

(* ------------------------------ state ---------------------------------- *)
\* a slot holds an Instance with the record of how it came to be: the
\* Configuration and seed of its init, every candle fed to it since and
\* every result it returned
NoSlot == [inst |-> NoInst, born |-> Moved, seed |-> 0, fed |-> <<>>, results |-> <<>>]

Call(op, dyn) ==
    [op |-> op, dyn |-> dyn, pre |-> cfg, set |-> setPeriod, slot |-> "", name |-> "",
     value |-> <<>>, inputs |-> <<>>, out |-> Ok(<<>>), inits |-> <<>>, fed |-> <<>>]

Init ==
    /\ cfg \in {DefaultConfig(k) : k \in Kinds}
    /\ setPeriod = NoSet
    /\ insts = [i \in Slots |-> NoSlot]
    /\ last = [Call("none", FALSE) EXCEPT !.pre = Moved, !.set = NoSet]

Held == cfg # Moved

(* ------------------------------ actions -------------------------------- *)
\* the host constructs a Configuration (struct literal: any field values)
NewConfig ==
    \E c \in Configs :
        /\ cfg' = c
        /\ setPeriod' = NoSet
        /\ last' = Call("new", FALSE)
        /\ UNCHANGED insts

\* set through the static trait (dyn = FALSE) or the dynamic adapter
SetStep(dyn, name, value) ==
    LET r == IF dyn THEN DynSet(cfg, name, value) ELSE ConfigSet(cfg, name, value)
    IN /\ Held
       /\ cfg' = r.cfg
       /\ setPeriod' = IF r.out.ok THEN <<ParseU8(value).val>> ELSE setPeriod
       /\ last' = [Call("set", dyn) EXCEPT !.name = name, !.value = value, !.out = r.out]
       /\ UNCHANGED insts

StaticSet == \E name \in ParamNames, value \in ParamValues : SetStep(FALSE, name, value)
DynSetCall == \E name \in ParamNames, value \in ParamValues : SetStep(TRUE, name, value)

\* the read-only queries
StaticQuery ==
    /\ Held
    /\ \/ last' = [Call("name", FALSE) EXCEPT !.out = Ok(ConfigName(cfg))]
       \/ last' = [Call("validate", FALSE) EXCEPT !.out = Ok(ConfigValidate(cfg))]
       \/ last' = [Call("size", FALSE) EXCEPT !.out = Ok(ConfigSize(cfg))]
    /\ UNCHANGED <<cfg, setPeriod, insts>>

DynQuery ==
    /\ Held
    /\ \/ last' = [Call("name", TRUE) EXCEPT !.out = Ok(DynName(cfg))]
       \/ last' = [Call("validate", TRUE) EXCEPT !.out = Ok(DynValidate(cfg))]
       \/ last' = [Call("size", TRUE) EXCEPT !.out = Ok(DynSize(cfg))]
    /\ UNCHANGED <<cfg, setPeriod, insts>>

\* static init: the Configuration is consumed, succeed or fail
StaticInit ==
    \E seed \in Candles :
        /\ Held
        /\ cfg' = Moved
        /\ setPeriod' = NoSet
        /\ last' = [Call("init", FALSE) EXCEPT
                      !.inputs = <<seed>>, !.out = ConfigInit(cfg, seed), !.inits = <<seed>>]
        /\ UNCHANGED insts

\* dynamic init: the receiver is borrowed; the boxed Instance is returned
DynInitCall ==
    \E seed \in Candles :
        LET r == DynInit(cfg, seed)
        IN /\ Held
           /\ cfg' = r.self
           /\ setPeriod' = IF r.self = Moved THEN NoSet ELSE setPeriod
           /\ last' = [Call("init", TRUE) EXCEPT
                         !.inputs = <<seed>>, !.out = r.out, !.inits = <<seed>>]
           /\ UNCHANGED insts

\* static over: the Configuration is consumed
StaticOver ==
    \E inputs \in CandleSeqs :
        LET r == ConfigOver(cfg, inputs)
        IN /\ Held
           /\ cfg' = Moved
           /\ setPeriod' = NoSet
           /\ last' = [Call("over", FALSE) EXCEPT
                         !.inputs = inputs, !.out = r.out, !.inits = r.inits, !.fed = r.fed]
           /\ UNCHANGED insts

\* dynamic over: the receiver is borrowed
DynOverCall ==
    \E inputs \in CandleSeqs :
        LET r == DynOver(cfg, inputs)
        IN /\ Held
           /\ cfg' = r.self
           /\ setPeriod' = IF r.self = Moved THEN NoSet ELSE setPeriod
           /\ last' = [Call("over", TRUE) EXCEPT
                         !.inputs = inputs, !.out = r.out, !.inits = r.inits, !.fed = r.fed]
           /\ UNCHANGED insts

Next ==
    \/ NewConfig
    \/ StaticSet
    \/ DynSetCall
    \/ StaticQuery
    \/ DynQuery
    \/ StaticInit
    \/ DynInitCall
    \/ StaticOver
    \/ DynOverCall

Spec == Init /\ [][Next]_vars

(* ------------- the host driving boxed Instances ------------------------ *)
TotalFed == Len(insts["a"].fed) + Len(insts["b"].fed)

\* the host retunes the Configuration it holds through the adapter
Retune ==
    \E d \in 1..MaxPeriod : SetStep(TRUE, "period", <<DigitChars[d + 1]>>)

\* dynamic init whose boxed Instance the host keeps in a slot
BoxInit ==
    \E i \in Slots, seed \in Candles :
        LET r == DynInit(cfg, seed)
        IN /\ Held
           /\ cfg' = r.self
           /\ setPeriod' = IF r.self = Moved THEN NoSet ELSE setPeriod
           /\ insts' = IF r.out.ok
                        THEN [insts EXCEPT ![i] =
                                [inst |-> r.out.val, born |-> cfg, seed |-> seed,
                                 fed |-> <<>>, results |-> <<>>]]
                        ELSE insts
           /\ last' = [Call("init", TRUE) EXCEPT !.slot = i, !.out = r.out]

Feed(i, op, inputs, r, results) ==
    /\ insts[i] # NoSlot
    /\ TotalFed + Len(inputs) <= MaxFed
    /\ insts' = [insts EXCEPT ![i].inst = r.inst,
                              ![i].fed = @ \o inputs,
                              ![i].results = @ \o results]
    /\ last' = [Call(op, TRUE) EXCEPT !.slot = i]
    /\ UNCHANGED <<cfg, setPeriod>>

\* next on a boxed Instance
BoxNext ==
    \E i \in Slots, candle \in Candles :
        LET r == InstDynNext(insts[i].inst, candle)
        IN Feed(i, "inext", <<candle>>, r, <<r.result>>)

\* over on a boxed Instance
BoxOver ==
    \E i \in Slots, inputs \in CandleSeqs :
        LET r == InstDynOver(insts[i].inst, inputs)
        IN Feed(i, "iover", inputs, r, r.results)

NextInst ==
    \/ Retune
    \/ BoxInit
    \/ BoxNext
    \/ BoxOver

SpecInst == Init /\ [][NextInst]_vars

(* ======================= properties: Configuration ===================== *)
IsOver == last.op = "over"
IsInit == last.op = "init"

\* the result of the k-th of the next calls that feed inputs to inst one by one
RECURSIVE ResultAt(_, _, _)
ResultAt(inst, inputs, k) ==
    IF k = 1 THEN InstNext(inst, inputs[1]).result
    ELSE ResultAt(InstNext(inst, inputs[1]).inst, Tail(inputs), k - 1)

\* the Instance after the first k of inputs were fed to inst one by one
RECURSIVE StateAfter(_, _, _)
StateAfter(inst, inputs, k) ==
    IF k = 0 THEN inst
    ELSE StateAfter(InstNext(inst, inputs[1]).inst, Tail(inputs), k - 1)

OverMatchesNext ==
    LET seeded == ConfigInit(last.pre, last.inputs[1])
    IN /\ last.inits = <<last.inputs[1]>>
       /\ last.out.ok
       /\ Len(last.out.val) = Len(last.inputs)
       /\ \A k \in 1..Len(last.inputs) :
            last.out.val[k] = ResultAt(seeded.val, last.inputs, k)

\* C1 as stated: for every valid Configuration and non-empty sequence, static
\* over calls init once with the first candle and returns one result per
\* candle, each equal to next on init's Instance fed the whole sequence.
C1_OverEqualsNextForEveryValid ==
    (IsOver /\ ~last.dyn /\ ConfigValidate(last.pre) /\ last.inputs # <<>>)
        => OverMatchesNext

\* C1 amended: the same, for the sequences whose first candle init accepts as
\* seed (init on a valid Configuration can still reject the seed).
C1_OverEqualsNextWhenInitSucceeds ==
    (IsOver /\ ~last.dyn /\ ConfigValidate(last.pre) /\ last.inputs # <<>>
        /\ ConfigInit(last.pre, last.inputs[1]).ok)
        => OverMatchesNext

C1_Witness ==
    /\ IsOver /\ ~last.dyn /\ ConfigValidate(last.pre)
    /\ Len(last.inputs) = MaxLen
    /\ last.pre.period = MaxPeriod
    /\ last.out.ok
    /\ Len(last.out.val) = MaxLen
    /\ last.out.val[1] # last.out.val[MaxLen]

\* C2: over on the empty sequence, static or dynamic, returns an empty result
\* sequence for every valid Configuration and never calls init.
C2_EmptyOverNoInit ==
    (IsOver /\ ConfigValidate(last.pre) /\ last.inputs = <<>>)
        => (last.out.ok /\ last.out.val = <<>> /\ last.inits = <<>> /\ last.fed = <<>>)

C2_Witness ==
    /\ IsOver /\ last.dyn /\ ConfigValidate(last.pre) /\ last.inputs = <<>>
    /\ last.out.ok

\* C3: erasure parity: dynamic over returns the outcome static over returns on
\* an equal Configuration, the result sequence or the error.
C3_ErasureParity ==
    (IsOver /\ last.dyn)
        => SameOutcome(last.out, ConfigOver(last.pre, last.inputs).out)

C3_Witness ==
    /\ IsOver /\ last.dyn /\ last.out.ok
    /\ last.pre.period = MaxPeriod
    /\ last.pre # DefaultConfig(last.pre.kind)
    /\ Len(last.inputs) = MaxLen

\* C4: dynamic init and dynamic over leave the Configuration they are called
\* on as it was, succeed or fail, and still held by the host.
C4_DynLeavesConfig ==
    ((IsInit \/ IsOver) /\ last.dyn) => (cfg = last.pre /\ Held)

C4_Witness ==
    /\ IsInit /\ last.dyn /\ ~last.out.ok
    /\ cfg = last.pre /\ Held /\ cfg.period = MaxPeriod

\* C5: a Configuration validate rejects never yields an Instance: init, static
\* or dynamic, fails with InvalidParameter for every seed, and over on a
\* non-empty sequence fails without feeding a candle.
C5_InvalidNeverInits ==
    /\ (IsInit /\ ~ConfigValidate(last.pre))
        => (~last.out.ok /\ last.out.err = "InvalidParameter")
    /\ (IsOver /\ ~ConfigValidate(last.pre) /\ last.inputs # <<>>)
        => (~last.out.ok /\ last.out.err = "InvalidParameter" /\ last.fed = <<>>)

C5_Witness ==
    /\ IsInit /\ last.dyn /\ ~ConfigValidate(last.pre)
    /\ SeedCompatible(last.pre, last.inputs[1])
    /\ ~last.out.ok

\* C6: when init fails inside over on a non-empty sequence, over (static or
\* dynamic) returns init's error itself, no results, and feeds no candle.
C6_OverPropagatesInitError ==
    (IsOver /\ last.inputs # <<>> /\ ~ConfigInit(last.pre, last.inputs[1]).ok)
        => /\ ~last.out.ok
           /\ last.out.err = ConfigInit(last.pre, last.inputs[1]).err
           /\ last.fed = <<>>

C6_Witness ==
    /\ IsOver /\ last.dyn /\ Len(last.inputs) = MaxLen
    /\ ~last.out.ok /\ last.out.err = "IncompatibleSeed"

\* C7: after a successful set followed by validate() = true, init and over
\* build the Instance from the value set, not from an earlier one.
C7_InitReflectsSet ==
    LET current == [kind |-> last.pre.kind, period |-> last.set[1]]
    IN (last.set # NoSet /\ ConfigValidate(last.pre))
        => /\ (IsInit /\ last.out.ok) =>
                (last.out.val.cfg = current /\ Len(last.out.val.window) = last.set[1])
           /\ (IsOver /\ last.out.ok /\ last.inputs # <<>>) =>
                last.out.val =
                    InstOver(ConfigInit(current, last.inputs[1]).val, last.inputs).results

C7_Witness ==
    /\ IsInit /\ last.dyn /\ last.out.ok
    /\ last.set = <<MaxPeriod>>
    /\ MaxPeriod # DefaultConfig(last.pre.kind).period
    /\ Len(last.out.val.window) = MaxPeriod

\* C8 as stated: the dynamic name, validate, set and size return what the
\* static operation of the same name returns on the same Configuration, also
\* for a Configuration that provides its own name().
C8_PassThrough ==
    last.dyn =>
        /\ (last.op = "name") => last.out.val = ConfigName(last.pre)
        /\ (last.op = "validate") => last.out.val = ConfigValidate(last.pre)
        /\ (last.op = "size") => last.out.val = ConfigSize(last.pre)
        /\ (last.op = "set") =>
            LET r == ConfigSet(last.pre, last.name, last.value)
            IN SameOutcome(last.out, r.out) /\ cfg = r.cfg

(* ========================= properties: Instances ======================= *)
IsFeed == last.op \in {"inext", "iover"}

\* the candles the step just taken appended to slot i
Appended(i) == SubSeq(insts[i].fed', Len(insts[i].fed) + 1, Len(insts[i].fed'))

\* C9: next and over on a boxed Instance act on the one Instance held: the
\* results returned and the state left equal those of static next calls on
\* that Instance, candle by candle in the order supplied.
C9_BoxedDelegation ==
    [][\A i \in Slots :
        (IsFeed' /\ last'.slot = i) =>
            LET fresh == Appended(i)
            IN /\ insts[i].fed' = insts[i].fed \o fresh
               /\ insts[i].inst' = StateAfter(insts[i].inst, fresh, Len(fresh))
               /\ Len(insts[i].results') = Len(insts[i].fed')
               /\ \A k \in 1..Len(fresh) :
                    insts[i].results'[Len(insts[i].fed) + k]
                        = ResultAt(insts[i].inst, fresh, k)
               /\ \A k \in 1..Len(insts[i].fed) :
                    insts[i].results'[k] = insts[i].results[k]]_vars

C9_Witness ==
    \E i \in Slots :
        /\ last.op = "inext" /\ last.slot = i
        /\ Len(insts[i].fed) = MaxFed
        /\ Len(insts[i].results) = MaxFed
        /\ insts[i].inst.cfg.period = MaxPeriod
        /\ insts[i].results[1] # insts[i].results[MaxFed]

\* C10: an Instance depends only on the Configuration at its own init, its
\* seed and the candles fed to it: whatever set, init and next/over calls
\* were interleaved, its state and results are those of that history alone.
C10_InstancesIndependent ==
    \A i \in Slots :
        insts[i] # NoSlot =>
            LET origin == ConfigInit(insts[i].born, insts[i].seed)
                replay == InstOver(origin.val, insts[i].fed)
            IN /\ origin.ok
               /\ insts[i].inst = replay.inst
               /\ insts[i].results = replay.results

C10_Witness ==
    /\ insts["a"] # NoSlot /\ insts["b"] # NoSlot
    /\ insts["a"].born.period # insts["b"].born.period
    /\ insts["a"].born # cfg
    /\ Len(insts["a"].fed) >= 1 /\ Len(insts["b"].fed) >= 1
    /\ last.op = "inext" /\ last.slot = "a"

====
